---- MODULE Spec2Model ----
(***************************************************************************)
(* Model of qe_runner.py: the orchestrator main(), the process supervisor  *)
(* run_pw(), the outcome classifier _detect_qe_errors() and the executable *)
(* resolver _find_pw_executable(), together with the solver process and    *)
(* the clock as the environment.                                           *)
(*                                                                         *)
(* Optional values (Python None / a value) are sequences of length 0 / 1.  *)
(* The captured output is a sequence of tokens (words); a pattern is the   *)
(* sequence of its words, and re.search is a left-to-right scan for the    *)
(* first position where the pattern's words occur consecutively.           *)
(***************************************************************************)
EXTENDS Integers, Sequences, FiniteSets, TLC

\* ---------------------------------------------------------------- bounds
\* Longest captured output, in tokens.
MaxOut == 3
\* Largest --timeout value, in seconds.
MaxTimeout == 1

\* ------------------------------------------------------ program constants
\* process.wait(timeout=10): the grace period after terminate().
GRACE == 10
\* return 124: the timeout sentinel of run_pw.
TIMEOUT_EXIT == 124
\* return 1: precondition failure in main.
PRECONDITION_EXIT == 1
\* return 2: the classifier found an error marker.
ERROR_EXIT == 2

None == <<>>
Some(x) == <<x>>

\* ------------------------------------------------------------ the patterns
ERROR_PATTERNS ==
    { <<"Error", "in", "routine">>,
      <<"MPI_ABORT">>,
      <<"forrtl:", "severe">>,
      <<"Maximum", "CPU", "time", "exceeded">>,
      <<"cannot", "open", "file">>,
      <<"ERROR">> }

SUCCESS_PATTERNS ==
    { <<"convergence", "has", "been", "achieved">>,
      <<"JOB", "DONE.">> }

\* A byte sequence that is not valid text; read_text(errors="ignore") drops it.
BAD == "\\xff"

\* What the solver writes to its standard output in this model.
Tokens == {"ERROR", "JOB", "DONE.", BAD}

\* Exit codes the solver chooses on its own.
ProcExitCodes == {0, 1, 2, 124}

\* Popen.returncode of a process that died from SIGTERM / from SIGKILL.
TermStatus == {-15}
KillStatus == {-9}

\* --timeout: absent, or a number of seconds.
Timeouts == {None} \cup {Some(t) : t \in 0..MaxTimeout}

\* --pw: a path-like string or a bare name; whether the path exists; whether
\* the search path holds the name.
PwCmds == [isPath : BOOLEAN, exists : BOOLEAN, onPath : BOOLEAN]

VARIABLES
    pc,             \* position of main / run_pw
    timeout,        \* args.timeout
    input_exists,   \* input_path.exists(), once tested
    pw_exec,        \* result of _find_pw_executable, once called
    outDirCreated,  \* the declared outdir was created by _ensure_output_dirs
    runDirCreated,  \* run_dir.mkdir was executed
    sinksCreated,   \* output and error files were opened for writing
    outFile,        \* raw content of the output file
    proc,           \* "none", "running", "exited"
    procStatus,     \* the status the process ended with
    returncode,     \* process.returncode, set when a wait reaps the process
    spawnCount,     \* number of Popen calls that created a process
    waited,         \* seconds the current process.wait call has blocked
    timedOut,       \* run_pw is in / went through the TimeoutExpired handler
    termSent,       \* process.terminate() was called
    killSent,       \* process.kill() was called
    rc,             \* the value run_pw returned
    content,        \* the text _detect_qe_errors read
    readOk,         \* read_text did not raise OSError
    has_error,
    has_success,
    exit_code       \* the value main returned

vars == << pc, timeout, input_exists, pw_exec, outDirCreated, runDirCreated,
           sinksCreated, outFile, proc, procStatus, returncode, spawnCount,
           waited, timedOut, termSent, killSent, rc, content,
           readOk, has_error, has_success, exit_code >>

mainVars == << input_exists, pw_exec, outDirCreated, runDirCreated >>
fileVars == << sinksCreated, outFile >>
procVars == << proc, procStatus, spawnCount >>
superVars == << returncode, waited, timedOut, termSent, killSent, rc >>
classVars == << content, readOk, has_error, has_success >>

Init ==
    /\ pc = "main"
    /\ timeout \in Timeouts
    /\ input_exists = None
    /\ pw_exec = None
    /\ outDirCreated = FALSE
    /\ runDirCreated = FALSE
    /\ sinksCreated = FALSE
    /\ outFile = <<>>
    /\ proc = "none"
    /\ procStatus = None
    /\ returncode = None
    /\ spawnCount = 0
    /\ waited = 0
    /\ timedOut = FALSE
    /\ termSent = FALSE
    /\ killSent = FALSE
    /\ rc = None
    /\ content = <<>>
    /\ readOk = FALSE
    /\ has_error = FALSE
    /\ has_success = FALSE
    /\ exit_code = None

\* ------------------------------------------------------- pure functions

\* _find_pw_executable: a path-like name resolves only if that path exists;
\* a bare name goes through shutil.which.
_find_pw_executable(pw_cmd) ==
    IF pw_cmd.isPath
    THEN (IF pw_cmd.exists THEN Some("pw_exec") ELSE None)
    ELSE (IF pw_cmd.onPath THEN Some("pw_exec") ELSE None)

\* read_text(errors="ignore"): undecodable bytes are dropped.
RECURSIVE Decode(_)
Decode(raw) ==
    IF raw = <<>> THEN <<>>
    ELSE IF Head(raw) = BAD THEN Decode(Tail(raw))
    ELSE <<Head(raw)>> \o Decode(Tail(raw))

\* The pattern's words stand at position i of the text.
RECURSIVE MatchAt(_, _, _)
MatchAt(pat, text, i) ==
    IF pat = <<>> THEN TRUE
    ELSE IF i > Len(text) THEN FALSE
    ELSE IF text[i] # Head(pat) THEN FALSE
    ELSE MatchAt(Tail(pat), text, i + 1)

\* re.search(pat, content): scan the start positions from the left.
RECURSIVE SearchFrom(_, _, _)
SearchFrom(pat, text, i) ==
    IF i > Len(text) THEN FALSE
    ELSE IF MatchAt(pat, text, i) THEN TRUE
    ELSE SearchFrom(pat, text, i + 1)

re_search(pat, text) == SearchFrom(pat, text, 1)

\* Variant: the success patterns are not searched once an error was found.
_detect_qe_errors_shortcircuit(readable, raw) ==
    IF ~readable THEN <<FALSE, FALSE>>
    ELSE LET text == Decode(raw)
             err == \E pat \in ERROR_PATTERNS : re_search(pat, text)
         IN  << err, ~err /\ \E pat \in SUCCESS_PATTERNS : re_search(pat, text) >>

\* _detect_qe_errors: (has_error, has_success); (False, False) on OSError.
_detect_qe_errors(readable, raw) ==
    IF ~readable THEN <<FALSE, FALSE>>
    ELSE LET text == Decode(raw)
         IN  << \E pat \in ERROR_PATTERNS : re_search(pat, text),
                \E pat \in SUCCESS_PATTERNS : re_search(pat, text) >>

\* Variant: a success marker cancels the error marker.
ExitCodeMapping_successwins(err, succ, code) ==
    IF err /\ ~succ THEN Some(ERROR_EXIT) ELSE code

\* Variant: a missing success marker is treated as an error.
ExitCodeMapping_warnfails(err, succ, code) ==
    IF err \/ ~succ THEN Some(ERROR_EXIT) ELSE code

\* Variant: a process exit code that collides with a reserved one is dropped.
ExitCodeMapping_remap(err, succ, code) ==
    IF err THEN Some(ERROR_EXIT)
    ELSE IF code \in {Some(PRECONDITION_EXIT), Some(ERROR_EXIT), Some(TIMEOUT_EXIT)}
    THEN Some(0) ELSE code

\* main, after classification: 2 on an error marker, else run_pw's value.
ExitCodeMapping(err, succ, code) ==
    IF err THEN Some(ERROR_EXIT) ELSE code

\* ------------------------------------------------------------------ main

\* if not input_path.exists()
InputMissing(exists) == ~exists

\* Variant: the result of the resolver is not tested.
ExeUnresolved_unchecked(found) == FALSE

\* if not pw_exec
ExeUnresolved(found) == found = None

\* main: input_path.exists() is tested first; a missing input returns 1.
CheckInput ==
    /\ pc = "main"
    /\ \E exists \in BOOLEAN :
        /\ input_exists' = Some(exists)
        /\ IF InputMissing(exists)
           THEN pc' = "done" /\ exit_code' = Some(PRECONDITION_EXIT)
           ELSE pc' = "resolve" /\ exit_code' = exit_code
    /\ UNCHANGED << timeout, pw_exec, outDirCreated, runDirCreated, fileVars,
                    procVars, superVars, classVars >>

\* main: the executable is resolved next; an unresolved one returns 1.
ResolveExe ==
    /\ pc = "resolve"
    /\ \E pw_cmd \in PwCmds :
        LET found == _find_pw_executable(pw_cmd) IN
        /\ pw_exec' = Some(found)
        /\ IF ExeUnresolved(found)
           THEN pc' = "done" /\ exit_code' = Some(PRECONDITION_EXIT)
           ELSE pc' = "ensure_dirs" /\ exit_code' = exit_code
    /\ UNCHANGED << timeout, input_exists, outDirCreated, runDirCreated,
                    fileVars, procVars, superVars, classVars >>

\* _ensure_output_dirs: the declared outdir is created when the deck is
\* readable and declares one; otherwise nothing happens.
EnsureOutputDirs ==
    /\ pc = "ensure_dirs"
    /\ \E deck \in {"unreadable", "no_outdir", "outdir"} :
        outDirCreated' = (deck = "outdir")
    /\ pc' = "mkdir"
    /\ UNCHANGED << timeout, input_exists, pw_exec, runDirCreated, fileVars,
                    procVars, superVars, classVars, exit_code >>

\* main: run_dir.mkdir(parents=True, exist_ok=True).
MakeRunDir ==
    /\ pc = "mkdir"
    /\ runDirCreated' = TRUE
    /\ pc' = "open"
    /\ UNCHANGED << timeout, input_exists, pw_exec, outDirCreated, fileVars,
                    procVars, superVars, classVars, exit_code >>

\* ---------------------------------------------------------------- run_pw

\* run_pw: open(output_path, "w"), open(error_path, "w").
OpenSinks ==
    /\ pc = "open"
    /\ sinksCreated' = TRUE
    /\ outFile' = <<>>
    /\ pc' = "spawn"
    /\ UNCHANGED << timeout, mainVars, procVars, superVars, classVars, exit_code >>

\* run_pw: open raises OSError, which nothing catches.
OpenSinksFail ==
    /\ pc = "open"
    /\ pc' = "raised"
    /\ UNCHANGED << timeout, mainVars, fileVars, procVars, superVars,
                    classVars, exit_code >>

\* run_pw: subprocess.Popen starts the solver.
Spawn ==
    /\ pc = "spawn"
    /\ proc' = "running"
    /\ spawnCount' = spawnCount + 1
    /\ pc' = "wait"
    /\ UNCHANGED << timeout, mainVars, fileVars, procStatus, superVars,
                    classVars, exit_code >>

\* Variant: the OSError of Popen is caught and reported as exit code 1.
SpawnFail_swallowed ==
    /\ pc = "spawn"
    /\ rc' = Some(PRECONDITION_EXIT)
    /\ pc' = "returned"
    /\ UNCHANGED << timeout, mainVars, fileVars, procVars, returncode, waited,
                    timedOut, termSent, killSent, classVars, exit_code >>

\* run_pw: Popen raises OSError, which nothing catches.
SpawnFail ==
    /\ pc = "spawn"
    /\ pc' = "raised"
    /\ UNCHANGED << timeout, mainVars, fileVars, procVars, superVars,
                    classVars, exit_code >>

\* process.wait(timeout=timeout) raises TimeoutExpired: a timeout is set and
\* has elapsed, and the process has not exited.
WaitTimeoutExpired ==
    timeout # None /\ waited >= timeout[1] /\ proc = "running"

\* Variant: the second wait has no timeout, so it never raises.
GraceExpired_never == FALSE

\* Variant: the grace wait gives up after one second.
GraceExpired_tooshort ==
    waited >= 1 /\ proc = "running"

\* process.wait(timeout=10) raises TimeoutExpired.
GraceExpired ==
    waited >= GRACE /\ proc = "running"

\* run_pw: process.wait returned because the process exited; the real exit
\* code is returned.
WaitReturn ==
    /\ pc = "wait"
    /\ proc = "exited"
    /\ returncode' = procStatus
    /\ rc' = procStatus
    /\ waited' = 0
    /\ pc' = "returned"
    /\ UNCHANGED << timeout, mainVars, fileVars, procVars, timedOut, termSent,
                    killSent, classVars, exit_code >>

\* run_pw: except TimeoutExpired: process.terminate(), then the grace wait.
WaitTimeout ==
    /\ pc = "wait"
    /\ WaitTimeoutExpired
    /\ timedOut' = TRUE
    /\ termSent' = TRUE
    /\ waited' = 0
    /\ pc' = "grace"
    /\ UNCHANGED << timeout, mainVars, fileVars, procVars, returncode,
                    killSent, rc, classVars, exit_code >>

\* run_pw: the process exited within the grace wait; return 124.
GraceExit ==
    /\ pc = "grace"
    /\ proc = "exited"
    /\ returncode' = procStatus
    /\ rc' = Some(TIMEOUT_EXIT)
    /\ waited' = 0
    /\ pc' = "returned"
    /\ UNCHANGED << timeout, mainVars, fileVars, procVars, timedOut, termSent,
                    killSent, classVars, exit_code >>

\* run_pw: the grace wait expired; process.kill(), then return 124 at once:
\* no wait follows the kill.
GraceKill ==
    /\ pc = "grace"
    /\ GraceExpired
    /\ killSent' = TRUE
    /\ rc' = Some(TIMEOUT_EXIT)
    /\ waited' = 0
    /\ pc' = "returned"
    /\ UNCHANGED << timeout, mainVars, fileVars, procVars, returncode,
                    timedOut, termSent, classVars, exit_code >>

\* A KeyboardInterrupt raised inside either process.wait: the only handler
\* is for TimeoutExpired, so it leaves run_pw and main.
Interrupt ==
    /\ pc \in {"wait", "grace"}
    /\ waited' = 0
    /\ pc' = "interrupted"
    /\ UNCHANGED << timeout, mainVars, fileVars, procVars, returncode,
                    timedOut, termSent, killSent, rc, classVars, exit_code >>

\* main: has_error, has_success = _detect_qe_errors(output_path).
Classify ==
    /\ pc = "returned"
    /\ \E readable \in BOOLEAN :
        LET flags == _detect_qe_errors(readable, outFile) IN
        /\ readOk' = readable
        /\ content' = IF readable THEN Decode(outFile) ELSE <<>>
        /\ has_error' = flags[1]
        /\ has_success' = flags[2]
    /\ pc' = "map"
    /\ UNCHANGED << timeout, mainVars, fileVars, procVars, superVars, exit_code >>

\* main: return 2 on has_error, else return exit_code.
MapExit ==
    /\ pc = "map"
    /\ exit_code' = ExitCodeMapping(has_error, has_success, rc)
    /\ pc' = "done"
    /\ UNCHANGED << timeout, mainVars, fileVars, procVars, superVars, classVars >>

\* ----------------------------------------------------------- environment

\* The solver appends to its standard output.
ProcWrite ==
    /\ proc = "running"
    /\ Len(outFile) < MaxOut
    /\ \E tok \in Tokens : outFile' = Append(outFile, tok)
    /\ UNCHANGED << pc, timeout, mainVars, sinksCreated, procVars, superVars,
                    classVars, exit_code >>

\* The solver exits: on its own with a code of its choice, or, once
\* terminate() was called, from the signal.
ProcExit ==
    /\ proc = "running"
    /\ \E code \in ProcExitCodes \cup (IF termSent THEN TermStatus ELSE {}) :
        procStatus' = Some(code)
    /\ proc' = "exited"
    /\ UNCHANGED << pc, timeout, mainVars, fileVars, spawnCount, superVars,
                    classVars, exit_code >>

\* SIGKILL takes effect: the process is gone some time after kill() was called.
ProcKilled ==
    /\ proc = "running"
    /\ killSent
    /\ \E code \in KillStatus : procStatus' = Some(code)
    /\ proc' = "exited"
    /\ UNCHANGED << pc, timeout, mainVars, fileVars, spawnCount, superVars,
                    classVars, exit_code >>

\* A second passes while run_pw blocks in process.wait(timeout=timeout).
TickWait ==
    /\ pc = "wait"
    /\ timeout # None
    /\ waited < timeout[1]
    /\ waited' = waited + 1
    /\ UNCHANGED << pc, timeout, mainVars, fileVars, procVars, returncode,
                    timedOut, termSent, killSent, rc, classVars, exit_code >>

\* A second passes while run_pw blocks in process.wait(timeout=10).
TickGrace ==
    /\ pc = "grace"
    /\ waited < GRACE
    /\ waited' = waited + 1
    /\ UNCHANGED << pc, timeout, mainVars, fileVars, procVars, returncode,
                    timedOut, termSent, killSent, rc, classVars, exit_code >>

Next ==
    \/ CheckInput
    \/ ResolveExe
    \/ EnsureOutputDirs
    \/ MakeRunDir
    \/ OpenSinks
    \/ OpenSinksFail
    \/ Spawn
    \/ SpawnFail
    \/ WaitReturn
    \/ WaitTimeout
    \/ GraceExit
    \/ GraceKill
    \/ Interrupt
    \/ Classify
    \/ MapExit
    \/ ProcWrite
    \/ ProcExit
    \/ ProcKilled
    \/ TickWait
    \/ TickGrace

Spec == Init /\ [][Next]_vars

\* The interpreter runs main's thread and the clock advances: a wait that can
\* return or raise does so, and a second that can pass does. Nothing is
\* assumed of the solver (it may never write or exit) nor of cancellation.
Fairness ==
    /\ WF_vars(WaitReturn)
    /\ WF_vars(WaitTimeout)
    /\ WF_vars(GraceExit)
    /\ WF_vars(GraceKill)
    /\ WF_vars(TickWait)
    /\ WF_vars(TickGrace)

LiveSpec == Init /\ [][Next]_vars /\ Fairness

\* ------------------------------------------------------------- properties

\* main returned 1 from one of its two precondition tests.
PreconditionFailed ==
    input_exists = Some(FALSE) \/ pw_exec = Some(None)

\* run_pw returned and its output was classified.
Classified == pc \in {"map", "done"} /\ rc # None

\* The pattern's words occur consecutively somewhere in the text.
Occurs(pat, text) ==
    \E i \in 1..Len(text) :
        /\ i + Len(pat) - 1 <= Len(text)
        /\ SubSeq(text, i, i + Len(pat) - 1) = pat

\* C1: whenever the solver exceeded the timeout, main's exit code is 124,
\* whatever the classifier found in the captured output.
C1_TimeoutExitIs124 ==
    (pc = "done" /\ timedOut) => exit_code = Some(TIMEOUT_EXIT)

\* C2: when run_pw returns from a run that timed out, it returns 124 and the
\* solver process of that run is no longer alive.
C2_TimeoutReturns124ProcessGone ==
    (pc = "returned" /\ timedOut) =>
        (rc = Some(TIMEOUT_EXIT) /\ proc # "running")

\* C3: the captured output is classified only after the solver process of the
\* run has terminated, and the run has exactly one outcome.
C3_ClassifiedOnlyAfterExit ==
    Classified => (proc = "exited" /\ spawnCount = 1)

\* C4: a missing input file or an unresolved executable makes main return 1
\* with no process spawned, no sink file, no run directory and no declared
\* output directory created.
C4_PreconditionFailureHasNoEffect ==
    PreconditionFailed =>
        /\ pc = "done"
        /\ exit_code = Some(PRECONDITION_EXIT)
        /\ spawnCount = 0
        /\ proc = "none"
        /\ ~sinksCreated
        /\ ~runDirCreated
        /\ ~outDirCreated

\* C4 witness: the input exists, the executable is not resolved, main is done.
C4_Witness ==
    /\ pc = "done"
    /\ input_exists = Some(TRUE)
    /\ pw_exec = Some(None)

\* C5: for a run that did not time out, has_error makes the exit code 2,
\* whatever the process's exit code and whether or not a success marker is
\* present.
C5_ErrorDominates ==
    (pc = "done" /\ Classified /\ ~timedOut /\ has_error) =>
        exit_code = Some(ERROR_EXIT)

\* C5 witness: error and success marker together, process exit code 0.
C5_Witness ==
    /\ pc = "done"
    /\ ~timedOut
    /\ has_error
    /\ has_success
    /\ returncode = Some(0)

\* C6 as stated: whenever has_error is false, the exit code is the process's
\* own exit code.
C6_NoErrorExitIsProcessCode ==
    (pc = "done" /\ Classified /\ ~has_error) => exit_code = procStatus

\* C6 amended: for a run that did not time out, whenever has_error is false
\* the exit code is the process's own exit code, with or without a success
\* marker.
C6_NoErrorNoTimeoutExitIsProcessCode ==
    (pc = "done" /\ Classified /\ ~timedOut /\ ~has_error) =>
        (exit_code = procStatus /\ exit_code = returncode)

\* C6 witness: the indeterminate case with a nonzero process exit code.
C6_Witness ==
    /\ pc = "done"
    /\ Classified
    /\ ~timedOut
    /\ ~has_error
    /\ ~has_success
    /\ procStatus = Some(1)
    /\ exit_code = Some(1)

C8_CancellationTerminatesProcess ==
    pc = "interrupted" => (termSent /\ proc # "running")

\* C9: has_error holds iff some error pattern occurs in the text read,
\* has_success iff some success pattern occurs, independently; empty or
\* unreadable output gives (false, false).
C9_ClassifierIsPresenceTest ==
    Classified =>
        /\ readOk =>
            /\ has_error <=> \E pat \in ERROR_PATTERNS : Occurs(pat, content)
            /\ has_success <=> \E pat \in SUCCESS_PATTERNS : Occurs(pat, content)
        /\ (~readOk \/ content = <<>>) => (~has_error /\ ~has_success)

\* C9 witness: a text with an error marker and a success marker was classified.
C9_Witness ==
    /\ pc = "map"
    /\ readOk
    /\ content = <<"ERROR", "JOB", "DONE.">>
    /\ has_error
    /\ has_success

\* C10: terminate() is called only from the timeout wait, with the timeout
\* elapsed and the process running; kill() only from the grace wait, after
\* terminate(), with the 10 seconds elapsed and the process running; a process
\* that exited within the grace wait is not killed; a run that did not time
\* out sends no signal and returns the process's real exit code.
C10_EscalationIsSequential ==
    /\ [][ (termSent' /\ ~termSent) =>
             /\ pc = "wait" /\ pc' = "grace"
             /\ timeout # None /\ waited >= timeout[1]
             /\ proc = "running"
             /\ ~killSent' ]_vars
    /\ [][ (killSent' /\ ~killSent) =>
             /\ pc = "grace" /\ pc' = "returned"
             /\ termSent
             /\ waited >= GRACE
             /\ proc = "running" ]_vars
    /\ [][ (pc = "grace" /\ proc = "exited") => ~killSent' ]_vars
    /\ [](killSent => termSent)
    /\ [](termSent => timedOut)
    /\ []((rc # None /\ ~timedOut) =>
            (~termSent /\ ~killSent /\ proc = "exited" /\ rc = procStatus))

\* C10 witness: the grace wait expired and the process was force-killed.
C10_Witness ==
    /\ pc = "returned"
    /\ termSent
    /\ killSent
    /\ rc = Some(TIMEOUT_EXIT)

\* C11: with a timeout configured, once the process is spawned the call of
\* run_pw eventually ends, whatever the process does: it returns a value, or
\* a cancellation from outside raised out of it.
C11_RunPwEventuallyEnds ==
    (pc = "wait" /\ timeout # None) ~> (rc # None \/ pc = "interrupted")

\* C11 witness: run_pw returned although the process never exited on its own
\* and ignored the graceful signal.
C11_Witness ==
    /\ pc = "returned"
    /\ timeout # None
    /\ timedOut
    /\ killSent
    /\ procStatus = None
    /\ rc = Some(TIMEOUT_EXIT)

\* C12: a run spawns at most one process, and only from the spawn step; a
\* failure to open the sinks or to spawn leaves run_pw and main by the
\* exception and nothing follows it: no spawn, no return value, no
\* classification, no exit code; a run that was classified or mapped to an
\* exit code spawned exactly once.
C12_SingleSpawnNoRetry ==
    /\ [](spawnCount <= 1)
    /\ [][ spawnCount' # spawnCount => (pc = "spawn" /\ spawnCount = 0) ]_vars
    /\ [][ (pc = "open" /\ pc' # "open" /\ ~sinksCreated') => pc' = "raised" ]_vars
    /\ [][ (pc = "spawn" /\ pc' # "spawn" /\ proc' = "none") => pc' = "raised" ]_vars
    /\ [][ pc = "raised" => UNCHANGED vars ]_vars
    /\ [](pc = "raised" =>
            /\ spawnCount = 0 /\ proc = "none"
            /\ rc = None /\ exit_code = None
            /\ ~readOk /\ ~has_error /\ ~has_success)
    /\ []((pc \in {"returned", "map"} \/ (pc = "done" /\ ~PreconditionFailed))
            => (spawnCount = 1 /\ rc # None))

\* C12 witness: the sinks were created, the spawn failed, the run is over.
C12_Witness ==
    /\ pc = "raised"
    /\ sinksCreated
    /\ spawnCount = 0

====
